---- MODULE Spec2Model ----
(***************************************************************************)
(* Model of owl's `adopt` command (src/src/commands/adopt.rs): the         *)
(* per-target classification loop, the interactive prompts, the write of   *)
(* an adopted package into a configuration file and the single save of     *)
(* the classification store after the loop.  Spec is one invocation,       *)
(* SpecRerun two invocations in a row, SpecDiscover and SpecAdd apply      *)
(* discover_candidates_from_explicit and add_package_to_file on their own. *)
(* SpecApply is one run of the package steps of the `apply` command        *)
(* (src/src/commands/apply/packages.rs): the removals, then the installs   *)
(* and updates, with every call to a collaborator kept in `trace`.         *)
(*                                                                         *)
(* Text is a sequence of tokens: SP is one blank, NL one line feed, every  *)
(* other token is a word without blanks (a section header, a package name  *)
(* or JUNK, which stands for text the configuration parser rejects).       *)
(***************************************************************************)
EXTENDS Integers, Sequences, FiniteSets, TLC

\* ------------------------------------------------------------------ bounds
MaxItems == 2       \* longest list of names given on the command line
MaxLines == 3       \* most lines of a configuration file drawn by InitAdd
MaxInvalid == 1     \* most invalid answers typed at one prompt
MaxAdds == 2        \* most calls of add_package_to_file in a row on one file

\* ------------------------------------------------------------- vocabulary
SP == " "
NL == "\n"
JUNK == "%junk"
PkgOrder == <<"p1", "p2", "p3", "p4">>     \* package names, ascending
Names == {PkgOrder[i] : i \in 1..Len(PkgOrder)}
Pkgs == {"p1", "p2", "p3"}                 \* the packages of the adopt runs
PackageHeaders == {"@packages", "@pkgs"}
OtherHeaders == {"@env"}
None == "none"
MainConfig == "f1"                          \* get_main_config_path()
AllConfigFiles == <<"f1", "f2">>            \* get_all_config_files(), when it finds files
FileNames == {"f1", "f2"}

\* ------------------------------------------------------------ text helpers
RECURSIVE TrimStart(_)
TrimStart(s) ==
    IF s # <<>> /\ Head(s) = SP THEN TrimStart(Tail(s)) ELSE s

RECURSIVE TrimEnd(_)
TrimEnd(s) ==
    IF s # <<>> /\ s[Len(s)] = SP THEN TrimEnd(SubSeq(s, 1, Len(s) - 1)) ELSE s

\* str::trim
Trim(s) == TrimEnd(TrimStart(s))

\* pieces of s between line feeds (like split('\n')): always at least one piece
RECURSIVE SplitNL(_, _, _)
SplitNL(s, cur, acc) ==
    IF s = <<>> THEN Append(acc, cur)
    ELSE IF Head(s) = NL THEN SplitNL(Tail(s), <<>>, Append(acc, cur))
    ELSE SplitNL(Tail(s), Append(cur, Head(s)), acc)

\* str::lines: a final line feed is a terminator, not the start of a last empty line
\* (the alphabet has no carriage return, so every line ends at a line feed)
Lines(content) ==
    LET pieces == SplitNL(content, <<>>, <<>>)
    IN  IF pieces[Len(pieces)] = <<>> THEN SubSeq(pieces, 1, Len(pieces) - 1)
        ELSE pieces

\* lines.join("\n")
RECURSIVE Join(_)
Join(ls) ==
    IF ls = <<>> THEN <<>>
    ELSE IF Len(ls) = 1 THEN ls[1]
    ELSE ls[1] \o <<NL>> \o Join(Tail(ls))

\* Vec::insert(i + 1, x): x becomes the element after position i
InsertAfter(ls, i, x) ==
    SubSeq(ls, 1, i) \o <<x>> \o SubSeq(ls, i + 1, Len(ls))

Range(s) == {s[i] : i \in 1..Len(s)}

\* --------------------------------------------------- classification store
EmptyStore == [managed |-> {}, untracked |-> {}, hidden |-> {}]

is_managed(st, p) == p \in st.managed
is_untracked(st, p) == p \in st.untracked
add_managed(st, p) == [st EXCEPT !.managed = @ \cup {p}]
remove_managed(st, p) == [st EXCEPT !.managed = @ \ {p}]
add_untracked(st, p) == [st EXCEPT !.untracked = @ \cup {p}]
remove_untracked(st, p) == [st EXCEPT !.untracked = @ \ {p}]

\* ------------------------------------------------ declared configuration
\* Config::parse, from the file format: a line whose trimmed content is exactly
\* @packages or @pkgs opens a package section, another header closes it, and the
\* non-blank lines of a package section are bare package names.  Text the parser
\* rejects (JUNK) makes the whole parse fail.
ParseOk(content) ==
    \A i \in 1..Len(Lines(content)) : JUNK \notin Range(Lines(content)[i])

RECURSIVE ParseLines(_, _, _)
ParseLines(ls, inPackages, acc) ==
    IF ls = <<>> THEN acc
    ELSE LET t == Trim(Head(ls))
         IN  IF t = <<>> THEN ParseLines(Tail(ls), inPackages, acc)
             ELSE IF Len(t) = 1 /\ t[1] \in PackageHeaders
                  THEN ParseLines(Tail(ls), TRUE, acc)
             ELSE IF Len(t) = 1 /\ t[1] \in OtherHeaders
                  THEN ParseLines(Tail(ls), FALSE, acc)
             ELSE IF inPackages /\ Len(t) = 1
                  THEN ParseLines(Tail(ls), inPackages, acc \cup {t[1]})
             ELSE ParseLines(Tail(ls), inPackages, acc)

ParsePackages(content) == ParseLines(Lines(content), FALSE, {})

\* ---------------------------------------------------- add_package_to_file
AbsentFile == [exists |-> FALSE, content |-> <<>>]
FileOf(content) == [exists |-> TRUE, content |-> content]

\* adopt.rs 378-383: an absent file reads as the empty string
ReadContent(file) == IF file.exists THEN file.content ELSE <<>>

\* config_contains_package without the literal-line fallback
config_contains_package_ParseOnly(package_name, content) ==
    ParseOk(content) /\ package_name \in ParsePackages(content)

\* adopt.rs 416-421
config_contains_package(package_name, content) ==
    IF ParseOk(content) THEN package_name \in ParsePackages(content)
    ELSE \E i \in 1..Len(Lines(content)) : Trim(Lines(content)[i]) = <<package_name>>

\* HeaderIndex that takes the last package-section header
HeaderIndex_Last(lines) ==
    LET hits == {i \in 1..Len(lines) :
                    Trim(lines[i]) = <<"@packages">> \/ Trim(lines[i]) = <<"@pkgs">>}
    IN  IF hits = {} THEN 0 ELSE CHOOSE i \in hits : \A j \in hits : i >= j

\* adopt.rs 392-399: index of the first package-section header, 0 when there is none
HeaderIndex(lines) ==
    LET hits == {i \in 1..Len(lines) :
                    Trim(lines[i]) = <<"@packages">> \/ Trim(lines[i]) = <<"@pkgs">>}
    IN  IF hits = {} THEN 0 ELSE CHOOSE i \in hits : \A j \in hits : i <= j

\* SeparatorNeeded that puts a separator before every new section
SeparatorNeeded_Always(lines) == TRUE

\* adopt.rs 402: a blank separator goes before a new section
SeparatorNeeded(lines) ==
    lines # <<>> /\ lines[Len(lines)] # <<>>

\* adopt.rs 401-407
AppendSection(lines, package_name) ==
    (IF SeparatorNeeded(lines) THEN Append(lines, <<>>) ELSE lines)
        \o << <<"@packages">>, <<package_name>> >>

\* adopt.rs 389-407
InsertPackage(lines, package_name) ==
    IF HeaderIndex(lines) # 0
    THEN InsertAfter(lines, HeaderIndex(lines), <<package_name>>)
    ELSE AppendSection(lines, package_name)

\* NewContent that joins the lines and adds no final line feed
NewContent_NoNewline(lines) == Join(lines)

\* adopt.rs 409
NewContent(lines) == Join(lines) \o <<NL>>

\* adopt.rs 364-414, without its I/O failures (those are choices of the caller)
add_package_to_file(package_name, file) ==
    IF config_contains_package(package_name, ReadContent(file))
    THEN [result |-> "AlreadyPresent", file |-> file]
    ELSE [result |-> "Added",
          file |-> FileOf(NewContent(InsertPackage(Lines(ReadContent(file)), package_name)))]

\* ------------------------------------------------------- target selection
Rank(name) == CHOOSE i \in 1..Len(PkgOrder) : PkgOrder[i] = name

RECURSIVE InsertSorted(_, _)
InsertSorted(sorted, x) ==
    IF sorted = <<>> THEN <<x>>
    ELSE IF Rank(x) < Rank(Head(sorted)) THEN <<x>> \o sorted
    ELSE <<Head(sorted)>> \o InsertSorted(Tail(sorted), x)

\* Vec::sort on names
RECURSIVE SortNames(_)
SortNames(v) ==
    IF v = <<>> THEN <<>> ELSE InsertSorted(SortNames(Tail(v)), Head(v))

RECURSIVE FilterSeq(_, _)
FilterSeq(v, keep) ==
    IF v = <<>> THEN <<>>
    ELSE IF Head(v) \in keep THEN <<Head(v)>> \o FilterSeq(Tail(v), keep)
    ELSE FilterSeq(Tail(v), keep)

\* IsCandidate without the filter on the declared configuration
IsCandidate_NoConfigFilter(pkg, st, cfg) ==
    /\ ~is_managed(st, pkg)
    /\ ~is_untracked(st, pkg)

\* IsCandidate without the filter on the untracked names
IsCandidate_NoUntrackedFilter(pkg, st, cfg) ==
    /\ ~is_managed(st, pkg)
    /\ pkg \notin cfg

\* adopt.rs 256-258
IsCandidate(pkg, st, cfg) ==
    /\ ~is_managed(st, pkg)
    /\ ~is_untracked(st, pkg)
    /\ pkg \notin cfg

\* adopt.rs 249-263; iter_order is the order in which the hash set yields its names
discover_candidates_from_explicit(explicit, st, cfg, iter_order) ==
    SortNames(FilterSeq(iter_order, {pkg \in explicit : IsCandidate(pkg, st, cfg)}))

\* adopt.rs 234-247
RECURSIVE NormalizeFrom(_, _, _)
NormalizeFrom(its, seen, out) ==
    IF its = <<>> THEN out
    ELSE LET name == Trim(Head(its))
         IN  IF name = <<>> THEN NormalizeFrom(Tail(its), seen, out)
             ELSE IF name[1] \in seen THEN NormalizeFrom(Tail(its), seen, out)
             ELSE NormalizeFrom(Tail(its), seen \cup {name[1]}, Append(out, name[1]))

normalize_targets(its) == NormalizeFrom(its, {}, <<>>)

\* ------------------------------------------------------------- run state
VARIABLES
    disk,                    \* the classification store in durable storage
    files,                   \* configuration files: name -> [exists, content]
    config,                  \* keys of the declared configuration loaded by run
    installed,               \* get_installed_packages()
    explicit_installed,      \* get_explicitly_installed_packages()
    items,                   \* names given on the command line (raw text)
    all,                     \* the discover-all flag
    pc,                      \* where run is
    state,                   \* run's in-memory PackageState
    discover_mode,
    targets,
    idx,                     \* position of the for loop in targets (1-based)
    adopted,
    adopted_state_only,
    ignored,
    skipped,
    skipped_not_installed,
    skipped_already_managed,
    state_changed,
    selected_config,
    invalid,                 \* invalid answers typed at the prompt being shown
    prompted,                \* history: packages prompt_package_action was called for
    config_prompts,          \* history: calls of prompt_config_file_selection
    calls,                   \* history: calls of add_package_to_file
    saves,                   \* history: calls of state.save()
    last,                    \* history: the branch of run taken by the last step
    loaded,                  \* history: the store as PackageState::load returned it
    run_no,                  \* number of the current invocation of the command
    prev,                    \* history: what the previous invocation left behind
    dry_run,                 \* apply: PackageOperationParams.dry_run
    non_interactive,         \* apply: PackageOperationParams.non_interactive
    passthrough_env,         \* apply: the environment variable OWL_PM_PASSTHROUGH
    to_remove,               \* apply: the batch given to handle_removals
    to_install,              \* apply: the list given to install_and_update_packages
    repo_to_install,         \* apply: locals of install_and_update_packages
    aur_to_install,
    aur_to_update,
    trace                    \* history: calls to the collaborators, in order

inputs == <<config, installed, explicit_installed, items, all>>
outcome_lists == <<adopted, adopted_state_only, ignored, skipped,
                   skipped_not_installed, skipped_already_managed>>
vars == <<disk, files, config, installed, explicit_installed, items, all, pc, state,
          discover_mode, targets, idx, adopted, adopted_state_only, ignored, skipped,
          skipped_not_installed, skipped_already_managed, state_changed,
          selected_config, invalid, prompted, config_prompts, calls, saves, last,
          loaded, run_no, prev, dry_run, non_interactive, passthrough_env, to_remove,
          to_install, repo_to_install, aur_to_install, aur_to_update, trace>>
apply_vars == <<dry_run, non_interactive, passthrough_env, to_remove, to_install,
                repo_to_install, aur_to_install, aur_to_update, trace>>

\* ------------------------------------------------------- pieces of run()
\* adopt.rs 62
DiscoverMode(flag, its) == flag \/ its = <<>>

\* PreDecision with the untracked rule applied to explicitly named targets too
PreDecision_UntrackedAlways(st, pkg, dm, inst, cfg) ==
    IF is_managed(st, pkg) THEN "skipped_already_managed"
    ELSE IF is_untracked(st, pkg) THEN "skipped"
    ELSE IF pkg \notin inst THEN "skipped_not_installed"
    ELSE IF pkg \in cfg THEN "adopted_state_only"
    ELSE "prompt"

\* PreDecision with the declared-configuration rule ahead of the installed rule
PreDecision_ConfigBeforeInstalled(st, pkg, dm, inst, cfg) ==
    IF is_managed(st, pkg) THEN "skipped_already_managed"
    ELSE IF dm /\ is_untracked(st, pkg) THEN "skipped"
    ELSE IF pkg \in cfg THEN "adopted_state_only"
    ELSE IF pkg \notin inst THEN "skipped_not_installed"
    ELSE "prompt"

\* adopt.rs 93-113: what happens to a target before any prompt
PreDecision(st, pkg, dm, inst, cfg) ==
    IF is_managed(st, pkg) THEN "skipped_already_managed"
    ELSE IF dm /\ is_untracked(st, pkg) THEN "skipped"
    ELSE IF pkg \notin inst THEN "skipped_not_installed"
    ELSE IF pkg \in cfg THEN "adopted_state_only"
    ELSE "prompt"

\* adopt.rs 109
StateOnlyEffect(st, pkg) == add_managed(st, pkg)

\* AdoptEffect without the add_managed call
AdoptEffect_NoManaged(st, pkg) == remove_untracked(st, pkg)

\* adopt.rs 149-150 and 155-156
AdoptEffect(st, pkg) == add_managed(remove_untracked(st, pkg), pkg)

\* adopt.rs 169-170
IgnoreEffect(st, pkg) == remove_managed(add_untracked(st, pkg), pkg)

\* SaveDue that saves after every loop
SaveDue_Always(changed) == TRUE

\* adopt.rs 179
SaveDue(changed) == changed

\* Breaks with Quit treated like Skip
Breaks_QuitContinues(answer) == answer \in {"read_fail", "cancel"}

\* adopt.rs 119, 135, 175: the answers that leave the for loop by `break`
Breaks(answer) == answer \in {"read_fail", "cancel", "quit"}

\* AfterWriteError that stops the loop
AfterWriteError_Break == "break"

\* adopt.rs 160-165: after a failed write the loop goes on with the next target
AfterWriteError == "continue"

\* CachedConfig that falls back to the main configuration file
CachedConfig_Main(sel) == MainConfig

\* adopt.rs 125-131: the file an Adopt writes to when one was chosen before
CachedConfig(sel) == sel

\* adopt.rs 314-318: the files offered for selection
OfferedFiles(found) == IF found = <<>> THEN <<MainConfig>> ELSE found

\* adopt.rs 179-184: the code after the loop
PostLoop(st, changed) ==
    /\ state' = st
    /\ state_changed' = changed
    /\ idx' = idx
    /\ pc' = "done"
    /\ IF SaveDue(changed)
       THEN \E ok \in BOOLEAN :
               /\ saves' = Append(saves, [store |-> st, ok |-> ok, at |-> "post_loop"])
               /\ disk' = IF ok THEN st ELSE disk
       ELSE UNCHANGED <<disk, saves>>

\* the end of one loop iteration: `continue`, `break`, or the end of targets
Proceed(st, changed, brk) ==
    IF brk \/ idx >= Len(targets)
    THEN PostLoop(st, changed)
    ELSE /\ state' = st
         /\ state_changed' = changed
         /\ idx' = idx + 1
         /\ pc' = "loop"
         /\ UNCHANGED <<disk, saves>>

\* adopt.rs 147-166: the call of add_package_to_file and what follows from its result
AddStep(pkg, path) ==
    \E io_ok \in BOOLEAN :
        LET r == add_package_to_file(pkg, files[path])
        IN  IF io_ok
            THEN /\ files' = [files EXCEPT ![path] = r.file]
                 /\ calls' = Append(calls, [pkg |-> pkg, path |-> path, result |-> r.result,
                                            before |-> files[path], after |-> r.file])
                 /\ adopted' = IF r.result = "Added" THEN Append(adopted, pkg) ELSE adopted
                 /\ adopted_state_only' = IF r.result = "Added" THEN adopted_state_only
                                          ELSE Append(adopted_state_only, pkg)
                 /\ last' = IF r.result = "Added" THEN "adopted" ELSE "already_present"
                 /\ Proceed(AdoptEffect(state, pkg), TRUE, FALSE)
            ELSE /\ calls' = Append(calls, [pkg |-> pkg, path |-> path, result |-> "Err",
                                            before |-> files[path], after |-> files[path]])
                 /\ last' = "adopt_failed"
                 /\ Proceed(state, state_changed, AfterWriteError = "break")
                 /\ UNCHANGED <<files, adopted, adopted_state_only>>

\* ------------------------------------------------------------ input sets
SeqsUpTo(S, n) == UNION {[1..k -> S] : k \in 0..n}
Orders(S) == {o \in [1..Cardinality(S) -> S] : Range(o) = S}

Stores(names) ==
    {[managed |-> m, untracked |-> u, hidden |-> {}] :
        m \in SUBSET names, u \in SUBSET names}

\* names as typed, a name typed with blanks around it, and a blank argument
RawItems == {<<"p1">>, <<SP, "p2", SP>>, <<"p3">>, <<SP>>}

\* p1 and p2 take every classification, declaration and installation status; p3 is
\* an installed package that is neither classified nor declared when run starts
Varied == {"p1", "p2"}

\* the command lines tried: the explicit set is read in discover mode only, and
\* the names are read outside discover mode only
CommandLines ==
    {[all |-> TRUE, items |-> its] : its \in {<<>>, << <<"p1">> >>}}
        \cup {[all |-> FALSE, items |-> its] : its \in SeqsUpTo(RawItems, MaxItems)}

JunkFile == FileOf(<<JUNK, NL, SP, "p1">>)
PkgsFile == FileOf(<<"@pkgs", NL, "p1", NL>>)
RunFiles ==
    {[f \in FileNames |-> IF f = "f1" THEN a ELSE PkgsFile] :
        a \in {AbsentFile, FileOf(<<>>), JunkFile}}

NoPrev == [marked |-> {}, saved |-> FALSE, calls |-> <<>>]

\* the apply orchestrator is not running
ApplyIdle ==
    /\ dry_run = FALSE
    /\ non_interactive = FALSE
    /\ passthrough_env = [set |-> FALSE, value |-> <<>>]
    /\ to_remove = <<>>
    /\ to_install = <<>>
    /\ repo_to_install = <<>>
    /\ aur_to_install = <<>>
    /\ aur_to_update = <<>>
    /\ trace = <<>>

\* the variables run() sets, before run() has started
Fresh ==
    /\ state = EmptyStore
    /\ loaded = EmptyStore
    /\ discover_mode = FALSE
    /\ targets = <<>>
    /\ idx = 0
    /\ adopted = <<>>
    /\ adopted_state_only = <<>>
    /\ ignored = <<>>
    /\ skipped = <<>>
    /\ skipped_not_installed = <<>>
    /\ skipped_already_managed = <<>>
    /\ state_changed = FALSE
    /\ selected_config = None
    /\ invalid = 0
    /\ prompted = <<>>
    /\ config_prompts = 0
    /\ calls = <<>>
    /\ saves = <<>>
    /\ last = "none"

Init ==
    /\ disk \in Stores(Varied)
    /\ files \in RunFiles
    /\ config \in SUBSET Varied
    /\ installed \in {i \cup {"p3"} : i \in SUBSET Varied}
    /\ \E c \in CommandLines : all = c.all /\ items = c.items
    /\ explicit_installed \in IF DiscoverMode(all, items) THEN SUBSET Pkgs ELSE {installed}
    /\ run_no = 1
    /\ prev = NoPrev
    /\ pc = "init"
    /\ Fresh
    /\ ApplyIdle

\* ---------------------------------------------------------------- actions
\* adopt.rs 25-60: one of the four loads fails and run returns
StartFail ==
    /\ pc = "init"
    /\ pc' = "returned"
    /\ last' = "load_failed"
    /\ UNCHANGED <<disk, files, inputs, state, discover_mode, targets, idx, outcome_lists,
                   state_changed, selected_config, invalid, prompted, config_prompts,
                   calls, saves, loaded, run_no, prev, apply_vars>>

\* adopt.rs 25-90: the loads succeed and the targets are computed
Start ==
    /\ pc = "init"
    /\ state' = disk
    /\ loaded' = disk
    /\ discover_mode' = DiscoverMode(all, items)
    /\ \E iter_order \in Orders(explicit_installed) :
          targets' = IF DiscoverMode(all, items)
                     THEN discover_candidates_from_explicit(explicit_installed, disk,
                                                            config, iter_order)
                     ELSE normalize_targets(items)
    /\ IF targets' = <<>>
       THEN pc' = "returned" /\ idx' = 0 /\ last' = "no_targets"
       ELSE pc' = "loop" /\ idx' = 1 /\ last' = "started"
    /\ UNCHANGED <<disk, files, inputs, outcome_lists, state_changed, selected_config,
                   invalid, prompted, config_prompts, calls, saves, run_no, prev, apply_vars>>

AtTarget(decision) ==
    /\ pc = "loop"
    /\ PreDecision(state, targets[idx], discover_mode, installed, config) = decision

\* adopt.rs 93-106: the three rules that put the target on a list and `continue`
SkipTarget ==
    LET decision == PreDecision(state, targets[idx], discover_mode, installed, config)
        push(list, name) == IF decision = name THEN Append(list, targets[idx]) ELSE list
    IN  /\ pc = "loop"
        /\ decision \in {"skipped_already_managed", "skipped", "skipped_not_installed"}
        /\ skipped_already_managed' = push(skipped_already_managed, "skipped_already_managed")
        /\ skipped' = push(skipped, "skipped")
        /\ skipped_not_installed' = push(skipped_not_installed, "skipped_not_installed")
        /\ last' = IF decision = "skipped" THEN "skipped_untracked" ELSE decision
        /\ Proceed(state, state_changed, FALSE)
        /\ UNCHANGED <<files, inputs, discover_mode, targets, adopted, adopted_state_only,
                       ignored, selected_config, invalid, prompted, config_prompts, calls,
                       loaded, run_no, prev, apply_vars>>

\* adopt.rs 108-113
AdoptStateOnly ==
    /\ AtTarget("adopted_state_only")
    /\ adopted_state_only' = Append(adopted_state_only, targets[idx])
    /\ last' = "state_only"
    /\ Proceed(StateOnlyEffect(state, targets[idx]), TRUE, FALSE)
    /\ UNCHANGED <<files, inputs, discover_mode, targets, adopted, ignored, skipped,
                   skipped_not_installed, skipped_already_managed, selected_config,
                   invalid, prompted, config_prompts, calls, loaded, run_no, prev, apply_vars>>

\* adopt.rs 115, 295-302: the action prompt is shown and run waits for a line
PromptPackage ==
    /\ AtTarget("prompt")
    /\ pc' = "prompt_action"
    /\ prompted' = Append(prompted, targets[idx])
    /\ invalid' = 0
    /\ last' = "prompt"
    /\ UNCHANGED <<disk, files, inputs, state, discover_mode, targets, idx, outcome_lists,
                   state_changed, selected_config, config_prompts, calls, saves, loaded,
                   run_no, prev, apply_vars>>

\* AnswerInvalid that gives the target up and goes on with the next one
AnswerInvalid_Advance ==
    /\ pc = "prompt_action"
    /\ invalid < MaxInvalid
    /\ invalid' = invalid + 1
    /\ last' = "invalid_action"
    /\ Proceed(state, state_changed, FALSE)
    /\ UNCHANGED <<files, inputs, discover_mode, targets, outcome_lists, selected_config,
                   prompted, config_prompts, calls, loaded, run_no, prev, apply_vars>>

\* adopt.rs 308: an unrecognized answer, the prompt is shown again
AnswerInvalid ==
    /\ pc = "prompt_action"
    /\ invalid < MaxInvalid
    /\ invalid' = invalid + 1
    /\ last' = "invalid_action"
    /\ UNCHANGED <<disk, files, inputs, pc, state, discover_mode, targets, idx,
                   outcome_lists, state_changed, selected_config, prompted,
                   config_prompts, calls, saves, loaded, run_no, prev, apply_vars>>

\* adopt.rs 299, 302, 117-120: the line cannot be read
AnswerReadFail ==
    /\ pc = "prompt_action"
    /\ last' = "read_fail"
    /\ invalid' = 0
    /\ Proceed(state, state_changed, Breaks("read_fail"))
    /\ UNCHANGED <<files, inputs, discover_mode, targets, outcome_lists, selected_config,
                   prompted, config_prompts, calls, loaded, run_no, prev, apply_vars>>

\* adopt.rs 307, 175
AnswerQuit ==
    /\ pc = "prompt_action"
    /\ last' = "quit"
    /\ invalid' = 0
    /\ Proceed(state, state_changed, Breaks("quit"))
    /\ UNCHANGED <<files, inputs, discover_mode, targets, outcome_lists, selected_config,
                   prompted, config_prompts, calls, loaded, run_no, prev, apply_vars>>

\* adopt.rs 306, 174
AnswerSkip ==
    /\ pc = "prompt_action"
    /\ skipped' = Append(skipped, targets[idx])
    /\ last' = "skip"
    /\ invalid' = 0
    /\ Proceed(state, state_changed, Breaks("skip"))
    /\ UNCHANGED <<files, inputs, discover_mode, targets, adopted, adopted_state_only,
                   ignored, skipped_not_installed, skipped_already_managed,
                   selected_config, prompted, config_prompts, calls, loaded, run_no, prev, apply_vars>>

\* adopt.rs 305, 168-173
AnswerIgnore ==
    /\ pc = "prompt_action"
    /\ ignored' = Append(ignored, targets[idx])
    /\ last' = "ignored"
    /\ invalid' = 0
    /\ Proceed(IgnoreEffect(state, targets[idx]), TRUE, Breaks("ignore"))
    /\ UNCHANGED <<files, inputs, discover_mode, targets, adopted, adopted_state_only,
                   skipped, skipped_not_installed, skipped_already_managed,
                   selected_config, prompted, config_prompts, calls, loaded, run_no, prev, apply_vars>>

\* adopt.rs 304, 124-126, 147-166: Adopt when a file was chosen earlier in the run
AnswerAdoptCached ==
    /\ pc = "prompt_action"
    /\ selected_config # None
    /\ invalid' = 0
    /\ AddStep(targets[idx], CachedConfig(selected_config))
    /\ UNCHANGED <<inputs, discover_mode, targets, ignored, skipped,
                   skipped_not_installed, skipped_already_managed, selected_config,
                   prompted, config_prompts, loaded, run_no, prev, apply_vars>>

\* adopt.rs 304, 127-128, 314-335: Adopt with no file chosen yet, the selection is shown
AnswerAdoptSelect ==
    /\ pc = "prompt_action"
    /\ selected_config = None
    /\ pc' = "select_config"
    /\ config_prompts' = config_prompts + 1
    /\ invalid' = 0
    /\ last' = "select_prompt"
    /\ UNCHANGED <<disk, files, inputs, state, discover_mode, targets, idx, outcome_lists,
                   state_changed, selected_config, prompted, calls, saves, loaded,
                   run_no, prev, apply_vars>>

\* adopt.rs 352: not a number, or a number that is no index of the list
SelectInvalid ==
    /\ pc = "select_config"
    /\ invalid < MaxInvalid
    /\ invalid' = invalid + 1
    /\ last' = "invalid_selection"
    /\ UNCHANGED <<disk, files, inputs, pc, state, discover_mode, targets, idx,
                   outcome_lists, state_changed, selected_config, prompted,
                   config_prompts, calls, saves, loaded, run_no, prev, apply_vars>>

\* adopt.rs 347-350, 129-132, 147-166: a valid index, then the write
SelectValid ==
    /\ pc = "select_config"
    /\ \E found \in {<<>>, AllConfigFiles} :
         \E i \in 0..(Len(OfferedFiles(found)) - 1) :
            /\ selected_config' = OfferedFiles(found)[i + 1]
            /\ AddStep(targets[idx], OfferedFiles(found)[i + 1])
    /\ invalid' = 0
    /\ UNCHANGED <<inputs, discover_mode, targets, ignored, skipped,
                   skipped_not_installed, skipped_already_managed, prompted,
                   config_prompts, loaded, run_no, prev, apply_vars>>

\* adopt.rs 343-345, 133-136
SelectCancel ==
    /\ pc = "select_config"
    /\ last' = "cancel"
    /\ invalid' = 0
    /\ Proceed(state, state_changed, Breaks("cancel"))
    /\ UNCHANGED <<files, inputs, discover_mode, targets, outcome_lists, selected_config,
                   prompted, config_prompts, calls, loaded, run_no, prev, apply_vars>>

\* adopt.rs 314, 317, 338-340, 137-143: the selection fails and run returns
SelectError ==
    /\ pc = "select_config"
    /\ pc' = "returned"
    /\ last' = "select_error"
    /\ invalid' = 0
    /\ UNCHANGED <<disk, files, inputs, state, discover_mode, targets, idx, outcome_lists,
                   state_changed, selected_config, prompted, config_prompts, calls,
                   saves, loaded, run_no, prev, apply_vars>>

Next ==
    \/ StartFail
    \/ Start
    \/ SkipTarget
    \/ AdoptStateOnly
    \/ PromptPackage
    \/ AnswerInvalid
    \/ AnswerReadFail
    \/ AnswerQuit
    \/ AnswerSkip
    \/ AnswerIgnore
    \/ AnswerAdoptCached
    \/ AnswerAdoptSelect
    \/ SelectInvalid
    \/ SelectValid
    \/ SelectCancel
    \/ SelectError

Spec == Init /\ [][Next]_vars

\* ------------------------------------------- the run with prompts answered
\* every step of run but the two invalid answers
Progress ==
    \/ StartFail
    \/ Start
    \/ SkipTarget
    \/ AdoptStateOnly
    \/ PromptPackage
    \/ AnswerReadFail
    \/ AnswerQuit
    \/ AnswerSkip
    \/ AnswerIgnore
    \/ AnswerAdoptCached
    \/ AnswerAdoptSelect
    \/ SelectValid
    \/ SelectCancel
    \/ SelectError

\* run is sequential code that goes on whenever it can, and every prompt gets,
\* after its invalid answers, a valid answer, a cancellation or a read failure
SpecLive == Init /\ [][Next]_vars /\ WF_vars(Progress)

\* ------------------------------------------------- the command run again
\* the command lines of the two invocations: names typed without blanks
RerunLines ==
    {[all |-> TRUE, items |-> <<>>]}
        \cup {[all |-> FALSE, items |-> its] :
                 its \in SeqsUpTo({<<"p1">>, <<"p3">>}, MaxItems)}

\* the command is invoked a second time after it ended: the store is loaded from
\* durable storage again, and the declared configuration from the files, which by
\* now may declare the packages the first invocation wrote
Rerun ==
    /\ pc \in {"done", "returned"}
    /\ run_no = 1
    /\ run_no' = run_no + 1
    /\ prev' = [marked |-> Range(adopted) \cup Range(adopted_state_only),
                saved |-> saves # <<>> /\ saves[Len(saves)].ok,
                calls |-> calls]
    /\ \E c \in RerunLines : all' = c.all /\ items' = c.items
    /\ config' \in {config,
                    config \cup {calls[i].pkg : i \in {j \in 1..Len(calls) :
                                                          calls[j].result = "Added"}}}
    /\ pc' = "init"
    /\ state' = EmptyStore
    /\ loaded' = EmptyStore
    /\ discover_mode' = FALSE
    /\ targets' = <<>>
    /\ idx' = 0
    /\ adopted' = <<>>
    /\ adopted_state_only' = <<>>
    /\ ignored' = <<>>
    /\ skipped' = <<>>
    /\ skipped_not_installed' = <<>>
    /\ skipped_already_managed' = <<>>
    /\ state_changed' = FALSE
    /\ selected_config' = None
    /\ invalid' = 0
    /\ prompted' = <<>>
    /\ config_prompts' = 0
    /\ calls' = <<>>
    /\ saves' = <<>>
    /\ last' = "rerun"
    /\ UNCHANGED apply_vars
    /\ UNCHANGED <<disk, files, installed, explicit_installed>>

InitRerun ==
    /\ disk \in {[managed |-> {}, untracked |-> u, hidden |-> {}] : u \in SUBSET {"p1"}}
    /\ files \in {[f \in FileNames |-> IF f = "f1" THEN a ELSE PkgsFile] :
                    a \in {AbsentFile, JunkFile}}
    /\ config \in SUBSET {"p1"}
    /\ installed = Pkgs
    /\ explicit_installed = Pkgs
    /\ \E c \in RerunLines : all = c.all /\ items = c.items
    /\ run_no = 1
    /\ prev = NoPrev
    /\ pc = "init"
    /\ Fresh
    /\ ApplyIdle

NextRerun == Next \/ Rerun

SpecRerun == InitRerun /\ [][NextRerun]_vars

\* ------------------------------------- discover_candidates_from_explicit
\* the function alone, on every store, declared configuration and explicit set
InitDiscover ==
    /\ disk \in Stores(Names)
    /\ config \in SUBSET Names
    /\ explicit_installed \in SUBSET Names
    /\ installed = explicit_installed
    /\ files = [f \in FileNames |-> AbsentFile]
    /\ all = TRUE
    /\ items = <<>>
    /\ run_no = 1
    /\ prev = NoPrev
    /\ pc = "discover_call"
    /\ Fresh
    /\ ApplyIdle

CallDiscover ==
    /\ pc = "discover_call"
    /\ \E iter_order \in Orders(explicit_installed) :
          targets' = discover_candidates_from_explicit(explicit_installed, disk, config,
                                                       iter_order)
    /\ pc' = "discover_ret"
    /\ last' = "discover"
    /\ UNCHANGED <<disk, files, inputs, state, discover_mode, idx, outcome_lists,
                   state_changed, selected_config, invalid, prompted, config_prompts,
                   calls, saves, loaded, run_no, prev, apply_vars>>

SpecDiscover == InitDiscover /\ [][CallDiscover]_vars

\* --------------------------------------------------- add_package_to_file
\* the function alone, on every file of at most MaxLines lines
LineShapes ==
    {<<>>, <<SP>>, <<"@packages">>, <<SP, "@pkgs">>, <<"@env">>, <<"p1">>,
     <<"p1", SP>>, <<"p2">>, <<JUNK>>}

AddFiles ==
    {AbsentFile}
        \cup {FileOf(Join(ls)) : ls \in SeqsUpTo(LineShapes, MaxLines)}
        \cup {FileOf(Join(ls) \o <<NL>>) : ls \in SeqsUpTo(LineShapes, MaxLines)}

InitAdd ==
    /\ files \in {[f \in FileNames |-> IF f = "f1" THEN a ELSE AbsentFile] : a \in AddFiles}
    /\ targets \in {<<"p1">>, <<"p2">>}
    /\ disk = EmptyStore
    /\ config = {}
    /\ installed = Pkgs
    /\ explicit_installed = Pkgs
    /\ all = FALSE
    /\ items = <<>>
    /\ run_no = 1
    /\ prev = NoPrev
    /\ pc = "add_call"
    /\ state = EmptyStore
    /\ loaded = EmptyStore
    /\ discover_mode = FALSE
    /\ idx = 1
    /\ adopted = <<>>
    /\ adopted_state_only = <<>>
    /\ ignored = <<>>
    /\ skipped = <<>>
    /\ skipped_not_installed = <<>>
    /\ skipped_already_managed = <<>>
    /\ state_changed = FALSE
    /\ selected_config = "f1"
    /\ invalid = 0
    /\ prompted = <<>>
    /\ config_prompts = 0
    /\ calls = <<>>
    /\ saves = <<>>
    /\ last = "none"
    /\ ApplyIdle

\* one call add_package_to_file(targets[1], "f1") that meets no I/O failure
CallAdd ==
    /\ pc = "add_call"
    /\ Len(calls) < MaxAdds
    /\ LET r == add_package_to_file(targets[1], files["f1"])
       IN  /\ files' = [files EXCEPT !["f1"] = r.file]
           /\ calls' = Append(calls, [pkg |-> targets[1], path |-> "f1",
                                      result |-> r.result,
                                      before |-> files["f1"], after |-> r.file])
           /\ last' = r.result
    /\ UNCHANGED <<disk, inputs, pc, state, discover_mode, targets, idx, outcome_lists,
                   state_changed, selected_config, invalid, prompted, config_prompts,
                   saves, loaded, run_no, prev, apply_vars>>

SpecAdd == InitAdd /\ [][CallAdd]_vars

\* ------------------------------------------------- apply: packages.rs
\* The environment variable is [set, value], its value a sequence of characters.
\* char::to_ascii_lowercase, on the letters that occur
Lower(c) ==
    CASE c = "T" -> "t" [] c = "R" -> "r" [] c = "U" -> "u" [] c = "E" -> "e"
      [] c = "Y" -> "y" [] c = "S" -> "s" [] c = "O" -> "o" [] c = "N" -> "n"
      [] OTHER -> c

ToAsciiLowercase(value) == [i \in 1..Len(value) |-> Lower(value[i])]

\* packages.rs 159
Enabling == {<<"1">>, <<"t", "r", "u", "e">>, <<"y", "e", "s">>, <<"o", "n">>}

\* use_pm_passthrough that honours the toggle in non-interactive runs too
use_pm_passthrough_IgnoresNonInteractive(ni, env) ==
    IF env.set THEN ToAsciiLowercase(Trim(env.value)) \in Enabling ELSE FALSE

\* packages.rs 150-163
use_pm_passthrough(ni, env) ==
    IF ni THEN FALSE
    ELSE IF env.set THEN ToAsciiLowercase(Trim(env.value)) \in Enabling
    ELSE FALSE

\* PmMode that never uses the passthrough form
PmMode_Plain(ni, env) == "plain"

\* packages.rs 182-190, 221-229, 233-241, 260-268: the form of a backend call
PmMode(ni, env) == IF use_pm_passthrough(ni, env) THEN "passthrough" ELSE "plain"

\* one call to a collaborator: what was called, with which packages, in which
\* form, and whether it succeeded (for a confirmation: whether the user agreed)
Ev(op, pkgs, mode, ok) == [op |-> op, pkgs |-> pkgs, mode |-> mode, ok |-> ok]

\* packages.rs 56-58
RECURSIVE RemoveAll(_, _)
RemoveAll(st, batch) ==
    IF batch = <<>> THEN st ELSE RemoveAll(remove_managed(st, Head(batch)), Tail(batch))

\* AfterBackendRemoval that drops the batch from the store after a failure too
AfterBackendRemoval_IgnoreError(st, batch, removed_ok) ==
    [state |-> RemoveAll(st, batch), save |-> TRUE]

\* packages.rs 47-65: what follows the backend removal call
AfterBackendRemoval(st, batch, removed_ok) ==
    IF removed_ok THEN [state |-> RemoveAll(st, batch), save |-> TRUE]
    ELSE [state |-> st, save |-> FALSE]

\* packages.rs 12-66; confirmed is the user's answer, removed_ok the backend's
handle_removals(batch, dry, st, confirmed, removed_ok) ==
    IF batch = <<>> THEN [state |-> st, save |-> FALSE, events |-> <<>>]
    ELSE IF dry THEN [state |-> st, save |-> FALSE, events |-> <<>>]
    ELSE IF ~confirmed
         THEN [state |-> st, save |-> FALSE,
               events |-> <<Ev("confirm_remove", batch, "-", FALSE)>>]
    ELSE [state |-> AfterBackendRemoval(st, batch, removed_ok).state,
          save |-> AfterBackendRemoval(st, batch, removed_ok).save,
          events |-> <<Ev("confirm_remove", batch, "-", TRUE),
                       Ev("remove", batch, "-", removed_ok)>>]

\* packages.rs 124-135; cat is the backend's answer to categorize_packages
categorize_install_sets(list, cat) ==
    IF list = <<>> THEN [repo |-> <<>>, aur |-> <<>>, ok |-> TRUE, events |-> <<>>]
    ELSE IF cat.ok
         THEN [repo |-> cat.repo, aur |-> cat.aur, ok |-> TRUE,
               events |-> <<Ev("categorize", list, "-", TRUE)>>]
    ELSE [repo |-> <<>>, aur |-> <<>>, ok |-> FALSE,
          events |-> <<Ev("categorize", list, "-", FALSE)>>]

\* compute_aur_updates that asks the backend in a dry run too
compute_aur_updates_NoDryCheck(dry, q) ==
    [updates |-> IF q.ok THEN q.pkgs ELSE <<>>, ok |-> q.ok,
     events |-> <<Ev("aur_updates_query", <<>>, "-", q.ok)>>]

\* packages.rs 137-148; q is the backend's answer to get_aur_updates
compute_aur_updates(dry, q) ==
    IF dry THEN [updates |-> <<>>, ok |-> TRUE, events |-> <<>>]
    ELSE IF q.ok
         THEN [updates |-> q.pkgs, ok |-> TRUE,
               events |-> <<Ev("aur_updates_query", <<>>, "-", TRUE)>>]
    ELSE [updates |-> <<>>, ok |-> FALSE,
          events |-> <<Ev("aur_updates_query", <<>>, "-", FALSE)>>]

\* packages.rs 165-192
install_repo_packages(repo, dry, ni, env, ok) ==
    IF repo = <<>> THEN <<>>
    ELSE IF dry THEN <<>>
    ELSE <<Ev("install_repo", repo, PmMode(ni, env), ok)>>

\* AurConfirmNeeded that asks in non-interactive runs too
AurConfirmNeeded_IgnoresNonInteractive(dry, ni) == ~dry

\* packages.rs 207-209: `dry_run || non_interactive || confirm_aur_operation(..)`
\* calls confirm_aur_operation only when both flags are false
AurConfirmNeeded(dry, ni) == ~dry /\ ~ni

\* packages.rs 194-249
handle_aur_operations(ai, au, dry, ni, env, confirmed, ok_install, ok_update) ==
    LET asked == IF AurConfirmNeeded(dry, ni)
                 THEN <<Ev("confirm_aur", ai \o au, "-", confirmed)>>
                 ELSE <<>>
    IN  IF AurConfirmNeeded(dry, ni) /\ ~confirmed THEN asked
        ELSE IF dry THEN asked
        ELSE asked
                \o (IF ai # <<>>
                    THEN <<Ev("install_aur", ai, PmMode(ni, env), ok_install)>>
                    ELSE <<>>)
                \o (IF au # <<>>
                    THEN <<Ev("update_aur", au, PmMode(ni, env), ok_update)>>
                    ELSE <<>>)

\* packages.rs 251-269
update_repo_packages(dry, ni, env, ok) ==
    IF dry THEN <<>> ELSE <<Ev("update_repo", <<>>, PmMode(ni, env), ok)>>

\* StepAfter with the repository updates ahead of the AUR operations
StepAfter_UpdatesBeforeAur(step) ==
    CASE step = "categorize"   -> "aur_updates"
      [] step = "aur_updates"  -> "install_repo"
      [] step = "install_repo" -> "update_repo"
      [] step = "update_repo"  -> "aur"
      [] step = "aur"          -> "dotfiles"
      [] step = "dotfiles"     -> "system"
      [] step = "system"       -> "applied"

\* packages.rs 75-121: the order of the calls in install_and_update_packages
StepAfter(step) ==
    CASE step = "categorize"   -> "aur_updates"
      [] step = "aur_updates"  -> "install_repo"
      [] step = "install_repo" -> "aur"
      [] step = "aur"          -> "update_repo"
      [] step = "update_repo"  -> "dotfiles"
      [] step = "dotfiles"     -> "system"
      [] step = "system"       -> "applied"

\* crate::error::handle_error and handle_error_with_context report the failure
\* and return to their caller
handle_error == "return"

\* AfterBackendCall that gives up the sequence at the first failure
AfterBackendCall_Abort(step, ok) == IF ok THEN StepAfter(step) ELSE "applied"

\* packages.rs 130-133, 143-146, 187-189, 226-228, 238-240, 265-267: the result of
\* a backend call goes to handle_error and the function carries on
AfterBackendCall(step, ok) ==
    IF ok \/ handle_error = "return" THEN StepAfter(step) ELSE "exited"

\* the apply command calls handle_removals, and when that returned
\* install_and_update_packages
AfterRemovals == "categorize"

\* ------------------------------------------------------ apply: one run
EnvValues ==
    {[set |-> FALSE, value |-> <<>>]}
        \cup {[set |-> TRUE, value |-> v] :
                 v \in {<<"1">>, <<"T", "r", "u", "e">>, <<"Y", "E", "S">>,
                        <<SP, "o", "n", SP>>, <<"0">>, <<"o", SP, "n">>, <<>>}}

ApplyStores ==
    {[managed |-> m, untracked |-> {"p3"}, hidden |-> {"p2"}] : m \in SUBSET {"p1", "p2"}}

RemoveBatches == {<<>>, <<"p1">>, <<"p1", "p2">>}
InstallLists == {<<>>, <<"p3">>, <<"p3", "p4">>}

\* answers of categorize_packages: a failure, or the list split in two
Categorizations(list) ==
    {[ok |-> FALSE, repo |-> <<>>, aur |-> <<>>]}
        \cup {[ok |-> TRUE, repo |-> FilterSeq(list, r),
                aur |-> FilterSeq(list, Range(list) \ r)] : r \in SUBSET Range(list)}

\* answers of get_aur_updates
AurUpdateAnswers ==
    {[ok |-> FALSE, pkgs |-> <<>>], [ok |-> TRUE, pkgs |-> <<>>],
     [ok |-> TRUE, pkgs |-> <<"p2">>]}

adopt_only == <<files, inputs, discover_mode, targets, idx, outcome_lists, state_changed,
                selected_config, invalid, prompted, config_prompts, calls, last, loaded,
                run_no, prev>>
apply_inputs == <<dry_run, non_interactive, passthrough_env, to_remove, to_install>>
apply_locals == <<repo_to_install, aur_to_install, aur_to_update>>

InitApply ==
    /\ state \in ApplyStores
    /\ loaded = state
    /\ disk = state
    /\ dry_run \in BOOLEAN
    /\ non_interactive \in BOOLEAN
    /\ passthrough_env \in EnvValues
    /\ to_remove \in RemoveBatches
    /\ to_install \in InstallLists
    /\ repo_to_install = <<>>
    /\ aur_to_install = <<>>
    /\ aur_to_update = <<>>
    /\ trace = <<>>
    /\ pc = "removals"
    /\ files = [f \in FileNames |-> AbsentFile]
    /\ config = {}
    /\ installed = Pkgs
    /\ explicit_installed = Pkgs
    /\ items = <<>>
    /\ all = FALSE
    /\ discover_mode = FALSE
    /\ targets = <<>>
    /\ idx = 0
    /\ adopted = <<>>
    /\ adopted_state_only = <<>>
    /\ ignored = <<>>
    /\ skipped = <<>>
    /\ skipped_not_installed = <<>>
    /\ skipped_already_managed = <<>>
    /\ state_changed = FALSE
    /\ selected_config = None
    /\ invalid = 0
    /\ prompted = <<>>
    /\ config_prompts = 0
    /\ calls = <<>>
    /\ saves = <<>>
    /\ last = "none"
    /\ run_no = 1
    /\ prev = NoPrev

\* packages.rs 12-66
HandleRemovals ==
    /\ pc = "removals"
    /\ \E confirmed \in BOOLEAN, removed_ok \in BOOLEAN, save_ok \in BOOLEAN :
         LET r == handle_removals(to_remove, dry_run, state, confirmed, removed_ok)
         IN  /\ state' = r.state
             /\ trace' = trace \o r.events
             /\ IF r.save
                THEN /\ saves' = Append(saves, [store |-> r.state, ok |-> save_ok,
                                                at |-> "handle_removals"])
                     /\ disk' = IF save_ok THEN r.state ELSE disk
                ELSE UNCHANGED <<saves, disk>>
    /\ pc' = AfterRemovals
    /\ UNCHANGED <<adopt_only, apply_inputs, apply_locals>>

\* packages.rs 75, 124-135
CategorizeInstallSets ==
    /\ pc = "categorize"
    /\ \E cat \in Categorizations(to_install) :
         LET r == categorize_install_sets(to_install, cat)
         IN  /\ repo_to_install' = r.repo
             /\ aur_to_install' = r.aur
             /\ trace' = trace \o r.events
             /\ pc' = AfterBackendCall("categorize", r.ok)
    /\ UNCHANGED <<adopt_only, apply_inputs, aur_to_update, state, saves, disk>>

\* packages.rs 78, 137-148
ComputeAurUpdates ==
    /\ pc = "aur_updates"
    /\ \E q \in AurUpdateAnswers :
         LET r == compute_aur_updates(dry_run, q)
         IN  /\ aur_to_update' = r.updates
             /\ trace' = trace \o r.events
             /\ pc' = AfterBackendCall("aur_updates", r.ok)
    /\ UNCHANGED <<adopt_only, apply_inputs, repo_to_install, aur_to_install, state,
                   saves, disk>>

\* packages.rs 81, 165-192
InstallRepoPackages ==
    /\ pc = "install_repo"
    /\ \E ok \in BOOLEAN :
         /\ trace' = trace \o install_repo_packages(repo_to_install, dry_run,
                                                    non_interactive, passthrough_env, ok)
         /\ pc' = AfterBackendCall("install_repo", ok)
    /\ UNCHANGED <<adopt_only, apply_inputs, apply_locals, state, saves, disk>>

\* packages.rs 84-107, 194-249: handle_aur_operations is called only when there
\* is an AUR package to install or to update
HandleAurOperations ==
    /\ pc = "aur"
    /\ \E confirmed \in BOOLEAN, ok_install \in BOOLEAN, ok_update \in BOOLEAN :
         /\ trace' = IF aur_to_install # <<>> \/ aur_to_update # <<>>
                     THEN trace \o handle_aur_operations(aur_to_install, aur_to_update,
                                       dry_run, non_interactive, passthrough_env,
                                       confirmed, ok_install, ok_update)
                     ELSE trace
         /\ pc' = AfterBackendCall("aur", ok_install /\ ok_update)
    /\ UNCHANGED <<adopt_only, apply_inputs, apply_locals, state, saves, disk>>

\* packages.rs 115, 251-269
UpdateRepoPackages ==
    /\ pc = "update_repo"
    /\ \E ok \in BOOLEAN :
         /\ trace' = trace \o update_repo_packages(dry_run, non_interactive,
                                                   passthrough_env, ok)
         /\ pc' = AfterBackendCall("update_repo", ok)
    /\ UNCHANGED <<adopt_only, apply_inputs, apply_locals, state, saves, disk>>

\* packages.rs 118
ApplyDotfiles ==
    /\ pc = "dotfiles"
    /\ trace' = Append(trace, Ev("dotfiles", <<>>, IF dry_run THEN "dry_run" ELSE "-", TRUE))
    /\ pc' = StepAfter("dotfiles")
    /\ UNCHANGED <<adopt_only, apply_inputs, apply_locals, state, saves, disk>>

\* packages.rs 121
HandleSystemSection ==
    /\ pc = "system"
    /\ trace' = Append(trace, Ev("system", <<>>, IF dry_run THEN "dry_run" ELSE "-", TRUE))
    /\ pc' = StepAfter("system")
    /\ UNCHANGED <<adopt_only, apply_inputs, apply_locals, state, saves, disk>>

NextApply ==
    \/ HandleRemovals
    \/ CategorizeInstallSets
    \/ ComputeAurUpdates
    \/ InstallRepoPackages
    \/ HandleAurOperations
    \/ UpdateRepoPackages
    \/ ApplyDotfiles
    \/ HandleSystemSection

SpecApply == InitApply /\ [][NextApply]_vars

\* ------------------------------------------------------------------ claims
Disjoint(st) == st.managed \cap st.untracked = {}
Membership(st, p) == <<p \in st.managed, p \in st.untracked>>

\* C1: a run that loaded a store with no name in both `managed` and `untracked`
\* ends with no name in both, in memory and in durable storage.
C1_MutualExclusive ==
    (pc = "done" /\ Disjoint(loaded)) => (Disjoint(state) /\ Disjoint(disk))

\* C2: discover_candidates_from_explicit returns exactly the explicitly installed
\* names that are not managed, not untracked and not declared, in ascending order
\* and without duplicates.
C2_DiscoverExact ==
    pc = "discover_ret" =>
        /\ Range(targets) = {n \in explicit_installed :
                                /\ n \notin disk.managed
                                /\ n \notin disk.untracked
                                /\ n \notin config}
        /\ \A i \in 1..Len(targets), j \in 1..Len(targets) :
              i < j => Rank(targets[i]) < Rank(targets[j])

C2_Witness ==
    /\ pc = "discover_ret"
    /\ targets = <<"p2", "p4">>
    /\ "p1" \in explicit_installed \cap disk.managed
    /\ "p3" \in explicit_installed \cap config

\* C3: a target the loop reaches is handled by the first rule that matches, in the
\* order managed, untracked in discover mode, not installed, declared; otherwise the
\* user is prompted.  The first three rules leave the store as it is, none of the
\* four writes a file or prompts, and an explicitly named untracked target passes
\* the second rule.
C3_RuleOrder ==
    [][pc = "loop" =>
        LET pkg == targets[idx]
            quiet == /\ files' = files
                     /\ calls' = calls
                     /\ prompted' = prompted
                     /\ config_prompts' = config_prompts
            only(list) ==
                /\ skipped_already_managed' =
                      IF list = 1 THEN Append(skipped_already_managed, pkg)
                      ELSE skipped_already_managed
                /\ skipped' = IF list = 2 THEN Append(skipped, pkg) ELSE skipped
                /\ skipped_not_installed' =
                      IF list = 3 THEN Append(skipped_not_installed, pkg)
                      ELSE skipped_not_installed
                /\ adopted_state_only' =
                      IF list = 4 THEN Append(adopted_state_only, pkg)
                      ELSE adopted_state_only
                /\ adopted' = adopted
                /\ ignored' = ignored
        IN  IF pkg \in state.managed
            THEN only(1) /\ quiet /\ state' = state
            ELSE IF discover_mode /\ pkg \in state.untracked
            THEN only(2) /\ quiet /\ state' = state
            ELSE IF pkg \notin installed
            THEN only(3) /\ quiet /\ state' = state
            ELSE IF pkg \in config
            THEN /\ only(4)
                 /\ quiet
                 /\ state' = [state EXCEPT !.managed = @ \cup {pkg}]
            ELSE /\ only(0)
                 /\ pc' = "prompt_action"
                 /\ prompted' = Append(prompted, pkg)
                 /\ state' = state
                 /\ files' = files
                 /\ calls' = calls]_vars

C3_Witness ==
    /\ ~discover_mode
    /\ pc = "prompt_action"
    /\ targets[idx] \in state.untracked
    /\ skipped_not_installed # <<>>

\* the targets the loop has reached so far
Reached ==
    {targets[j] : j \in {k \in 1..Len(targets) : k < idx \/ (k = idx /\ pc # "loop")}}

\* C4: when the first invocation marked p managed and saved, a second invocation
\* with target p lists p as already managed, asks nothing and writes nothing for
\* p, leaves p's classification as loaded, and does not save when p is its only
\* target.
C4_Idempotent ==
    \A p \in Pkgs :
        (run_no = 2 /\ prev.saved /\ p \in prev.marked /\ p \in Range(targets)) =>
            /\ p \notin Range(prompted)
            /\ \A i \in 1..Len(calls) : calls[i].pkg # p
            /\ p \notin Range(adopted) \cup Range(adopted_state_only) \cup Range(ignored)
                          \cup Range(skipped) \cup Range(skipped_not_installed)
            /\ p \in loaded.managed
            /\ Membership(state, p) = Membership(loaded, p)
            /\ p \in Reached => p \in Range(skipped_already_managed)
            /\ (pc = "done" /\ targets = <<p>>) => (saves = <<>> /\ state = loaded)

C4_Witness ==
    /\ run_no = 2
    /\ prev.saved
    /\ prev.calls # <<>>
    /\ prev.calls[1].pkg = "p1"
    /\ prev.calls[1].result = "Added"
    /\ targets = <<"p1">>
    /\ pc = "done"
    /\ skipped_already_managed = <<"p1">>

Mutated == Range(adopted) \cup Range(adopted_state_only) \cup Range(ignored)
Listed == Mutated \cup Range(skipped) \cup Range(skipped_not_installed)
              \cup Range(skipped_already_managed)
IndexOf(p) == CHOOSE j \in 1..Len(targets) : targets[j] = p
SavedAsIs == Len(saves) = 1 /\ saves[1].store = state /\ (saves[1].ok => disk = state)

\* C5: when the file selection fails with a read error after an earlier target
\* was adopted state-only or ignored, the store is still saved with those changes.
C5_SavedAfterSelectError ==
    (last = "select_error" /\ (adopted_state_only # <<>> \/ ignored # <<>>)) => SavedAsIs

\* C6: after Quit, or after a failed read of the action prompt, the loop is over:
\* the current and the later targets are on no list, had no write and keep their
\* classification, the later ones were never prompted, and what was done for the
\* earlier targets is in the store that is saved.
C6_QuitKeeps ==
    last \in {"quit", "read_fail"} =>
        /\ pc = "done"
        /\ prompted[Len(prompted)] = targets[idx]
        /\ \A j \in idx..Len(targets) :
              /\ targets[j] \notin Listed
              /\ \A i \in 1..Len(calls) : calls[i].pkg # targets[j]
              /\ Membership(state, targets[j]) = Membership(loaded, targets[j])
              /\ j > idx => targets[j] \notin Range(prompted)
        /\ \A p \in Range(adopted) \cup Range(adopted_state_only) : p \in state.managed
        /\ \A p \in Range(adopted) : p \notin state.untracked
        /\ \A p \in Range(ignored) : p \in state.untracked /\ p \notin state.managed
        /\ Mutated # {} => SavedAsIs

C6_Witness ==
    /\ last = "quit"
    /\ Len(targets) = 3
    /\ idx = 2
    /\ ignored = <<targets[1]>>
    /\ targets[1] \notin loaded.untracked
    /\ saves # <<>>
    /\ saves[1].ok
    /\ targets[1] \in disk.untracked

\* C7: the store is saved at most once and only when the loop is over; a loop that
\* went through all its targets saves exactly once when a target was adopted,
\* adopted state-only or ignored, and not at all otherwise.
C7_SaveOnce ==
    /\ Len(saves) <= 1
    /\ saves # <<>> => pc = "done"
    /\ (pc = "done" /\ last \notin {"quit", "read_fail", "cancel"}) =>
          /\ idx = Len(targets)
          /\ Mutated # {} => SavedAsIs
          /\ Mutated = {} => saves = <<>>

C7_Witness ==
    /\ pc = "done"
    /\ Len(targets) = 3
    /\ last = "skip"
    /\ Mutated = {targets[1]}
    /\ Len(saves) = 1

\* C8: a package whose write failed keeps its classification and is on neither
\* adopted list; the loop goes on with the next target, and the run still saves
\* what it changed.
C8_WriteFailure ==
    /\ \A i \in 1..Len(calls) :
          calls[i].result = "Err" =>
              /\ Membership(state, calls[i].pkg) = Membership(loaded, calls[i].pkg)
              /\ calls[i].pkg \notin Listed
    /\ last = "adopt_failed" =>
          IF IndexOf(calls[Len(calls)].pkg) < Len(targets)
          THEN pc = "loop" /\ idx = IndexOf(calls[Len(calls)].pkg) + 1
          ELSE pc = "done"
    /\ (pc = "done" /\ Mutated # {} /\ \E i \in 1..Len(calls) : calls[i].result = "Err")
          => SavedAsIs

C8_Witness ==
    /\ pc = "done"
    /\ Len(calls) = 2
    /\ calls[1].result = "Err"
    /\ calls[2].result = "Added"
    /\ prompted = <<calls[1].pkg, calls[2].pkg>>
    /\ saves # <<>>
    /\ saves[1].ok
    /\ calls[2].pkg \in disk.managed
    /\ calls[1].pkg \notin disk.managed

\* p is in the file: on a line of a package section when the file parses, on any
\* line when it does not
PresentIn(p, content) ==
    LET ls == Lines(content)
        header(i) == Len(Trim(ls[i])) = 1
                        /\ Trim(ls[i])[1] \in PackageHeaders \cup OtherHeaders
        opens(i) == Len(Trim(ls[i])) = 1 /\ Trim(ls[i])[1] \in PackageHeaders
        junk == \E i \in 1..Len(ls) : \E k \in 1..Len(ls[i]) : ls[i][k] = JUNK
    IN  IF junk
        THEN \E j \in 1..Len(ls) : Trim(ls[j]) = <<p>>
        ELSE \E i \in 1..Len(ls), j \in 1..Len(ls) :
                /\ i < j
                /\ opens(i)
                /\ Trim(ls[j]) = <<p>>
                /\ \A k \in (i + 1)..(j - 1) : ~header(k)

\* C9: adopting a package that is already in the chosen file returns
\* AlreadyPresent, leaves the file as it was, takes the package out of `untracked`,
\* puts it in `managed` and lists it as adopted state-only; so a package adopted
\* into a file by an earlier invocation is not written to that file again.
C9_AlreadyPresent ==
    /\ \A i \in 1..Len(calls) :
          calls[i].result # "Err" =>
              /\ PresentIn(calls[i].pkg, ReadContent(calls[i].before))
                    <=> calls[i].result = "AlreadyPresent"
              /\ calls[i].result = "AlreadyPresent" =>
                    /\ calls[i].after = calls[i].before
                    /\ calls[i].pkg \in Range(adopted_state_only)
                    /\ calls[i].pkg \notin Range(adopted)
                    /\ calls[i].pkg \in state.managed
                    /\ calls[i].pkg \notin state.untracked
    /\ \A i \in 1..Len(prev.calls), j \in 1..Len(calls) :
          (/\ prev.calls[i].pkg = calls[j].pkg
           /\ prev.calls[i].path = calls[j].path
           /\ prev.calls[i].result = "Added"
           /\ calls[j].result # "Err")
              => calls[j].result = "AlreadyPresent" /\ calls[j].after = calls[j].before

C9_Witness ==
    /\ run_no = 2
    /\ Len(prev.calls) = 1
    /\ prev.calls[1].result = "Added"
    /\ ~ParseOk(prev.calls[1].before.content)
    /\ Len(calls) = 1
    /\ calls[1].pkg = prev.calls[1].pkg
    /\ calls[1].path = prev.calls[1].path
    /\ calls[1].result = "AlreadyPresent"
    /\ files[calls[1].path] = prev.calls[1].after
    /\ adopted_state_only = <<calls[1].pkg>>

\* C10: add_package_to_file on an absent or empty file returns Added and leaves
\* exactly the line @packages and the line with the package name, each ended by
\* one line feed.
C10_CreatesSection ==
    (calls # <<>> /\ ReadContent(calls[1].before) = <<>>) =>
        /\ calls[1].result = "Added"
        /\ calls[1].after = [exists |-> TRUE,
                             content |-> <<"@packages", NL, calls[1].pkg, NL>>]
        /\ Len(calls) = 1 => files["f1"] = calls[1].after

C10_Witness ==
    /\ Len(calls) = 1
    /\ ~calls[1].before.exists
    /\ calls[1].result = "Added"
    /\ files["f1"].content = <<"@packages", NL, "p2", NL>>

\* number of line feeds at the very end of a text
RECURSIVE TrailingNL(_)
TrailingNL(content) ==
    IF content = <<>> THEN 0
    ELSE IF content[Len(content)] # NL THEN 0
    ELSE 1 + TrailingNL(SubSeq(content, 1, Len(content) - 1))

HasPackageHeader(content) ==
    \E i \in 1..Len(Lines(content)) :
        Trim(Lines(content)[i]) \in {<<h>> : h \in PackageHeaders}

EndsInEmptyLine(content) ==
    Lines(content) # <<>> /\ Lines(content)[Len(Lines(content))] = <<>>

\* C11 as stated: whenever add_package_to_file rewrites a file, whatever the prior
\* content (trailing blank lines, no final line feed), the rewritten file ends
\* with exactly one line feed.
C11_ExactlyOneNewline ==
    \A i \in 1..Len(calls) :
        calls[i].result = "Added" => TrailingNL(calls[i].after.content) = 1

\* C11 amended: the rewritten file always ends with a line feed, and with exactly
\* one unless the prior content has a package-section header and ends in an empty
\* line; the empty lines at its end are then kept below the inserted name and the
\* file ends with as many line feeds as before.
C11_TrailingNewline ==
    \A i \in 1..Len(calls) :
        calls[i].result = "Added" =>
            LET before == ReadContent(calls[i].before)
                after  == calls[i].after.content
            IN  /\ calls[i].after.exists
                /\ TrailingNL(after) >= 1
                /\ TrailingNL(after) =
                      IF HasPackageHeader(before) /\ EndsInEmptyLine(before)
                      THEN TrailingNL(before)
                      ELSE 1

\* a file whose package section is followed by an empty line keeps that line
\* below the inserted name
C11_Witness ==
    /\ Len(calls) = 1
    /\ calls[1].result = "Added"
    /\ HasPackageHeader(calls[1].before.content)
    /\ EndsInEmptyLine(calls[1].before.content)
    /\ TrailingNL(calls[1].before.content) = 2
    /\ TrailingNL(calls[1].after.content) = 2
    /\ files["f1"] = calls[1].after

\* the places of the package-section headers among the lines of a text
PackageHeaderLines(lines) ==
    {i \in 1..Len(lines) : Trim(lines[i]) \in {<<h>> : h \in PackageHeaders}}

IsHeaderLine(line) ==
    Len(Trim(line)) = 1 /\ Trim(line)[1] \in PackageHeaders \cup OtherHeaders

\* C19: a package that add_package_to_file adds to a file with a @packages or
\* @pkgs header becomes a line of the section under the first such header, never
\* of a later section, and every prior line is kept with its content and order;
\* with no such header the prior lines are followed by an empty separator line
\* exactly when the file is non-empty and does not end in an empty line, then by
\* @packages and the package name.
C19_InsertIntoFirstSection ==
    \A i \in 1..Len(calls) :
        calls[i].result = "Added" =>
            LET before == ReadContent(calls[i].before)
                old    == Lines(before)
                new    == Lines(calls[i].after.content)
                hdrs   == PackageHeaderLines(old)
            IN  IF hdrs # {}
                THEN LET h == CHOOSE x \in hdrs : \A y \in hdrs : x <= y
                     IN  /\ Len(new) = Len(old) + 1
                         /\ \E k \in (h + 1)..Len(new) :
                               /\ new[k] = <<calls[i].pkg>>
                               /\ SubSeq(new, 1, k - 1) = SubSeq(old, 1, k - 1)
                               /\ SubSeq(new, k + 1, Len(new)) = SubSeq(old, k, Len(old))
                               /\ \A j \in (h + 1)..(k - 1) : ~IsHeaderLine(new[j])
                ELSE new = old
                            \o (IF before # <<>> /\ ~EndsInEmptyLine(before)
                                THEN << <<>> >> ELSE <<>>)
                            \o << <<"@packages">>, <<calls[i].pkg>> >>

\* a file whose two package-section headers follow another line gets the name
\* right under the first of them
C19_Witness ==
    /\ Len(calls) = 1
    /\ calls[1].result = "Added"
    /\ Cardinality(PackageHeaderLines(Lines(calls[1].before.content))) = 2
    /\ 1 \notin PackageHeaderLines(Lines(calls[1].before.content))
    /\ Lines(files["f1"].content)[3] = <<calls[1].pkg>>
    /\ Len(Lines(files["f1"].content)) = 4

\* C20: the file selection is asked at most once in a run; once a file was chosen
\* every Adopt writes to that file and none asks again, also after a failed first
\* write; a cancelled selection ends the loop with the current and the later
\* targets untouched and what was done for the earlier targets saved.
C20_SelectionOnce ==
    /\ config_prompts <= 1
    /\ calls # <<>> =>
          /\ config_prompts = 1
          /\ selected_config \in Range(AllConfigFiles)
          /\ \A i \in 1..Len(calls) : calls[i].path = selected_config
    /\ last = "cancel" =>
          /\ pc = "done"
          /\ calls = <<>>
          /\ selected_config = None
          /\ \A j \in idx..Len(targets) :
                /\ targets[j] \notin Listed
                /\ Membership(state, targets[j]) = Membership(loaded, targets[j])
                /\ j > idx => targets[j] \notin Range(prompted)
          /\ \A p \in Range(adopted_state_only) : p \in state.managed
          /\ \A p \in Range(ignored) : p \in state.untracked
          /\ Mutated # {} => SavedAsIs

\* the write for the first adopted package failed and the second Adopt wrote to
\* the same file after a single selection
C20_Witness ==
    /\ Len(calls) = 2
    /\ calls[1].result = "Err"
    /\ calls[2].result = "Added"
    /\ calls[2].path = "f2"
    /\ calls[1].path = "f2"
    /\ config_prompts = 1
    /\ pc = "done"

\* the calls of one kind in the trace
Ops(op) == {i \in 1..Len(trace) : trace[i].op = op}
Did(op) == Ops(op) # {}

\* the step of the apply sequence a call belongs to; the two queries that
\* prepare the installs belong to none
Phase(op) ==
    CASE op \in {"confirm_remove", "remove"}              -> 1
      [] op = "install_repo"                               -> 2
      [] op \in {"confirm_aur", "install_aur", "update_aur"} -> 3
      [] op = "update_repo"                                -> 4
      [] op = "dotfiles"                                   -> 5
      [] op = "system"                                     -> 6
      [] OTHER                                             -> 0

\* C12: the steps of an apply run happen in the order removals, repository
\* installs, AUR installs and AUR updates under one confirmation, repository
\* updates, dotfile synchronization, service and environment activation; every
\* call has returned before the next is made and no step happens twice.
C12_StepOrder ==
    /\ \A i \in 1..Len(trace), j \in 1..Len(trace) :
          (i < j /\ Phase(trace[i].op) # 0 /\ Phase(trace[j].op) # 0)
              => Phase(trace[i].op) <= Phase(trace[j].op)
    /\ \A i \in 1..Len(trace), j \in 1..Len(trace) :
          i < j => /\ trace[i].op # trace[j].op
                   /\ ~(trace[i].op = "remove" /\ trace[j].op = "confirm_remove")
                   /\ ~(trace[i].op = "install_aur" /\ trace[j].op = "confirm_aur")
                   /\ ~(trace[i].op = "update_aur" /\ trace[j].op = "confirm_aur")
                   /\ ~(trace[i].op = "update_aur" /\ trace[j].op = "install_aur")
    /\ pc = "removals" => trace = <<>> /\ saves = <<>>
    /\ \A i \in 1..Len(saves) :
          saves[i].at = "handle_removals" =>
              (pc # "removals" /\ (trace # <<>> => Did("remove")))
    /\ pc = "applied" =>
          /\ Len(trace) >= 2
          /\ trace[Len(trace) - 1].op = "dotfiles"
          /\ trace[Len(trace)].op = "system"

\* a run in which every step had something to do
C12_Witness ==
    /\ pc = "applied"
    /\ [i \in 1..Len(trace) |-> trace[i].op] =
          <<"confirm_remove", "remove", "categorize", "aur_updates_query",
            "install_repo", "confirm_aur", "install_aur", "update_aur",
            "update_repo", "dotfiles", "system">>
    /\ Len(saves) = 1

\* the removal was asked for, confirmed by the user and done by the backend
RemovalConfirmed == \E i \in Ops("confirm_remove") : trace[i].ok
RemovalDone == \E i \in Ops("remove") : trace[i].ok
RemovalEffective ==
    to_remove # <<>> /\ ~dry_run /\ RemovalConfirmed /\ RemovalDone

\* C13: handle_removals changes the store exactly when the batch is non-empty,
\* the run is not a dry run, the user confirmed and the backend removal
\* succeeded; then every package of the batch is out of `managed`, nothing else
\* changed and the store was saved once.  In every other case the store is as it
\* was loaded and was not saved, and with an empty batch, a dry run or a declined
\* confirmation the backend removal was not called.
C13_RemovalGate ==
    pc # "removals" =>
        /\ RemovalEffective <=> saves # <<>>
        /\ state # loaded => RemovalEffective
        /\ RemovalEffective =>
              /\ state.managed = loaded.managed \ Range(to_remove)
              /\ state.untracked = loaded.untracked
              /\ state.hidden = loaded.hidden
              /\ Len(saves) = 1
              /\ saves[1].store = state
              /\ disk = IF saves[1].ok THEN state ELSE loaded
        /\ ~RemovalEffective => (state = loaded /\ disk = loaded /\ saves = <<>>)
        /\ Did("confirm_remove") <=> (to_remove # <<>> /\ ~dry_run)
        /\ Did("remove") <=> (to_remove # <<>> /\ ~dry_run /\ RemovalConfirmed)

\* a confirmed, successful removal of two managed packages
C13_Witness ==
    /\ pc = "categorize"
    /\ to_remove = <<"p1", "p2">>
    /\ loaded.managed = {"p1", "p2"}
    /\ RemovalEffective
    /\ state.managed = {}
    /\ Len(saves) = 1
    /\ disk = state

\* C14: in a dry run the removal and the install/update handling call no backend
\* removal, install or update, do not ask the backend for AUR updates, ask for
\* no confirmation, and leave the store as loaded, in memory and in durable
\* storage, without saving it.
C14_DryRunNoSideEffects ==
    dry_run =>
        /\ \A i \in 1..Len(trace) :
              trace[i].op \notin {"remove", "install_repo", "install_aur", "update_aur",
                                  "update_repo", "aur_updates_query", "confirm_remove",
                                  "confirm_aur"}
        /\ aur_to_update = <<>>
        /\ state = loaded
        /\ disk = loaded
        /\ saves = <<>>

\* a dry run to the end with a batch to remove, a repository package and an AUR
\* package to install
C14_Witness ==
    /\ dry_run
    /\ pc = "applied"
    /\ to_remove # <<>>
    /\ repo_to_install # <<>>
    /\ aur_to_install # <<>>
    /\ [i \in 1..Len(trace) |-> trace[i].op] = <<"categorize", "dotfiles", "system">>
    /\ trace[2].mode = "dry_run"

AurStepOver == pc \in {"update_repo", "dotfiles", "system", "applied"}
AurWork == aur_to_install # <<>> \/ aur_to_update # <<>>

\* C15: in a run that is neither dry nor non-interactive the AUR installs and
\* updates are under exactly one confirmation request that lists both sets, no
\* AUR install or update is called before it, and a declined request means
\* neither is called; a non-interactive run asks nothing and calls them; the
\* repository installs are called without any confirmation request for them.
C15_OneAurConfirmation ==
    /\ Cardinality(Ops("confirm_aur")) <= 1
    /\ \A j \in Ops("install_aur") \cup Ops("update_aur") :
          ~non_interactive => \E i \in Ops("confirm_aur") : i < j /\ trace[i].ok
    /\ \A i \in Ops("confirm_aur") :
          /\ ~dry_run /\ ~non_interactive
          /\ trace[i].pkgs = aur_to_install \o aur_to_update
          /\ Range(trace[i].pkgs) \cap Range(repo_to_install) = {}
          /\ \A k \in Ops("install_repo") : k < i
          /\ ~trace[i].ok => (~Did("install_aur") /\ ~Did("update_aur"))
    /\ (AurStepOver /\ ~dry_run /\ ~non_interactive) =>
          /\ Did("confirm_aur") <=> AurWork
          /\ \A i \in Ops("confirm_aur") :
                trace[i].ok => /\ Did("install_aur") <=> aur_to_install # <<>>
                               /\ Did("update_aur") <=> aur_to_update # <<>>
    /\ (AurStepOver /\ ~dry_run /\ non_interactive) =>
          /\ ~Did("confirm_aur")
          /\ Did("install_aur") <=> aur_to_install # <<>>
          /\ Did("update_aur") <=> aur_to_update # <<>>
    /\ pc = "aur" =>
          /\ ~Did("confirm_aur")
          /\ Did("install_repo") <=> (repo_to_install # <<>> /\ ~dry_run)

\* an interactive run with a repository install, then one confirmation for the
\* AUR package to install and the AUR package to update, then both calls
C15_Witness ==
    /\ pc = "applied"
    /\ ~dry_run
    /\ ~non_interactive
    /\ repo_to_install = <<"p4">>
    /\ \E i \in Ops("confirm_aur") : trace[i].pkgs = <<"p3", "p2">> /\ trace[i].ok
    /\ Did("install_repo")
    /\ Did("install_aur")
    /\ Did("update_aur")

Failed(op) == \E i \in Ops(op) : ~trace[i].ok
AurAllowed == non_interactive \/ \E i \in Ops("confirm_aur") : trace[i].ok

\* C16: a failed backend call (removal, categorization, AUR-update query,
\* repository install, AUR install, AUR update, repository update) ends no apply
\* run: the run always goes on to its next step, and at its end every later step
\* with something to do was called, whatever failed before, through the dotfile
\* synchronization and the service and environment activation.
C16_FailureDoesNotStop ==
    /\ pc \in {"removals", "categorize", "aur_updates", "install_repo", "aur",
               "update_repo", "dotfiles", "system", "applied"}
    /\ pc # "applied" => ENABLED NextApply
    /\ pc = "applied" =>
          /\ Did("dotfiles") /\ Did("system")
          /\ Did("categorize") <=> to_install # <<>>
          /\ ~dry_run =>
                /\ Did("aur_updates_query")
                /\ Did("install_repo") <=> repo_to_install # <<>>
                /\ Did("install_aur") <=> (aur_to_install # <<>> /\ AurAllowed)
                /\ Did("update_aur") <=> (aur_to_update # <<>> /\ AurAllowed)
                /\ Did("update_repo")

\* a run in which the removal, the repository install, both AUR calls and the
\* repository update all failed, and which still reached its end
C16_Witness ==
    /\ pc = "applied"
    /\ Failed("remove")
    /\ Failed("install_repo")
    /\ Failed("install_aur")
    /\ Failed("update_aur")
    /\ Failed("update_repo")
    /\ trace[Len(trace)].op = "system"

BackendCalls == {"install_repo", "install_aur", "update_aur", "update_repo"}

\* the text is one of 1, true, yes, on, whatever the case of its letters
MatchesToggle(text) ==
    \E e \in {<<"1">>, <<"t", "r", "u", "e">>, <<"y", "e", "s">>, <<"o", "n">>} :
        /\ Len(text) = Len(e)
        /\ \A i \in 1..Len(e) : Lower(text[i]) = e[i]

\* C17 as stated: a backend install or update call is made in passthrough form
\* exactly when the run is not non-interactive and OWL_PM_PASSTHROUGH is set to
\* one of 1, true, yes, on compared without regard to case; otherwise it is made
\* in the plain form.
C17_ToggleExact ==
    \A i \in 1..Len(trace) :
        trace[i].op \in BackendCalls =>
            /\ trace[i].mode \in {"passthrough", "plain"}
            /\ trace[i].mode = "passthrough" <=>
                  (/\ ~non_interactive
                   /\ passthrough_env.set
                   /\ MatchesToggle(passthrough_env.value))

\* C17 amended: the value of OWL_PM_PASSTHROUGH is compared after the blanks
\* around it are removed; a backend install or update call is made in
\* passthrough form exactly when the run is not non-interactive and the trimmed
\* value is one of 1, true, yes, on without regard to case.
C17_ToggleTrimmed ==
    \A i \in 1..Len(trace) :
        trace[i].op \in BackendCalls =>
            /\ trace[i].mode \in {"passthrough", "plain"}
            /\ trace[i].mode = "passthrough" <=>
                  (/\ ~non_interactive
                   /\ passthrough_env.set
                   /\ MatchesToggle(Trim(passthrough_env.value)))

\* the toggle set to ` on ` in an interactive run: all four backend calls are
\* made in passthrough form
C17_Witness ==
    /\ pc = "applied"
    /\ ~non_interactive
    /\ passthrough_env = [set |-> TRUE, value |-> <<SP, "o", "n", SP>>]
    /\ \A op \in BackendCalls : \E i \in Ops(op) : trace[i].mode = "passthrough"

PassthroughInEffect ==
    /\ ~dry_run
    /\ ~non_interactive
    /\ passthrough_env.set
    /\ MatchesToggle(Trim(passthrough_env.value))

\* C18 as stated: with passthrough in effect the orchestrator asks no
\* confirmation of its own before the AUR installs and updates.
C18_NoOwnConfirmation ==
    PassthroughInEffect => ~Did("confirm_aur")

\* C18 amended: with passthrough in effect every backend install and update is
\* called in passthrough form, and the orchestrator still asks its own single
\* confirmation before the AUR installs and updates: none of them is called
\* without a confirmed request before it.
C18_PassthroughStillConfirms ==
    PassthroughInEffect =>
        /\ \A i \in 1..Len(trace) :
              trace[i].op \in BackendCalls => trace[i].mode = "passthrough"
        /\ \A j \in Ops("install_aur") \cup Ops("update_aur") :
              \E i \in Ops("confirm_aur") : i < j /\ trace[i].ok
        /\ AurStepOver => (Did("confirm_aur") <=> AurWork)
        /\ Cardinality(Ops("confirm_aur")) <= 1

\* passthrough in effect, the confirmation asked and agreed to, then the AUR
\* install in passthrough form
C18_Witness ==
    /\ PassthroughInEffect
    /\ pc = "update_repo"
    /\ trace[Len(trace)].op = "install_aur"
    /\ trace[Len(trace)].mode = "passthrough"
    /\ trace[Len(trace) - 1].op = "confirm_aur"
    /\ trace[Len(trace) - 1].ok

NoDuplicates(v) == \A i \in 1..Len(v), j \in 1..Len(v) : v[i] = v[j] => i = j

\* C21: an invalid answer to the action prompt or to the file-selection prompt
\* leaves run at the same prompt for the same package, with the store, the files
\* and the position in the targets as they were; every target is taken up at most
\* once; and when every prompt gets a valid answer, a cancellation or a read
\* failure in the end, the run ends.
C21_InvalidRepeatsAndEnds ==
    /\ [][invalid' > invalid =>
            /\ pc \in {"prompt_action", "select_config"}
            /\ pc' = pc
            /\ idx' = idx
            /\ targets' = targets
            /\ state' = state
            /\ disk' = disk
            /\ files' = files
            /\ state_changed' = state_changed
            /\ selected_config' = selected_config
            /\ prompted' = prompted
            /\ config_prompts' = config_prompts
            /\ calls' = calls
            /\ saves' = saves
            /\ UNCHANGED outcome_lists]_vars
    /\ [](/\ NoDuplicates(targets)
          /\ NoDuplicates(prompted)
          /\ NoDuplicates(adopted \o adopted_state_only \o ignored \o skipped
                             \o skipped_not_installed \o skipped_already_managed)
          /\ \A i \in 1..Len(calls), j \in 1..Len(calls) :
                calls[i].pkg = calls[j].pkg => i = j)
    /\ <>(pc \in {"done", "returned"})

\* an invalid answer at the file selection for the second target, after an
\* invalid answer at its action prompt was followed by Adopt
C21_Witness ==
    /\ pc = "select_config"
    /\ last = "invalid_selection"
    /\ invalid = 1
    /\ idx = 2
    /\ prompted = <<targets[1], targets[2]>>
    /\ ignored = <<targets[1]>>
    /\ config_prompts = 1
    /\ calls = <<>>

\* C22: every name a run adds to `managed`, and every name it adds to
\* `untracked`, is a target of the run that is in the installed set queried at
\* its start; this holds in memory at every step after the loads and for what
\* reaches durable storage.
C22_OnlyInstalledTargets ==
    (pc # "init" /\ last # "load_failed") =>
        /\ state.managed \ loaded.managed \subseteq Range(targets) \cap installed
        /\ state.untracked \ loaded.untracked \subseteq Range(targets) \cap installed
        /\ disk.managed \ loaded.managed \subseteq Range(targets) \cap installed
        /\ disk.untracked \ loaded.untracked \subseteq Range(targets) \cap installed
        /\ state.hidden = loaded.hidden

\* a run over a declared target that is not installed and an installed one that
\* was adopted
C22_Witness ==
    /\ pc = "done"
    /\ Len(targets) = 2
    /\ targets[1] \in config
    /\ targets[1] \notin installed
    /\ skipped_not_installed = <<targets[1]>>
    /\ state.managed \ loaded.managed = {targets[2]}
    /\ saves # <<>>

\* C23: in discover mode the rules for a managed target, for an untracked target
\* and for a declared target never fire: no target is on skipped_already_managed,
\* a target on skipped or on adopted_state_only was prompted first (the user
\* skipped it, or adopted it and the file had it already), and every target the
\* loop has dealt with was either found not installed or prompted.
C23_DiscoverRulesDormant ==
    discover_mode =>
        /\ skipped_already_managed = <<>>
        /\ Range(adopted_state_only) \subseteq Range(prompted)
        /\ Range(skipped) \subseteq Range(prompted)
        /\ pc = "loop" =>
              /\ targets[idx] \notin state.managed
              /\ targets[idx] \notin state.untracked
              /\ targets[idx] \notin config
        /\ \A j \in 1..Len(targets) :
              (j < idx \/ (j = idx /\ pc \in {"done", "prompt_action", "select_config"}))
                  => (targets[j] \in Range(skipped_not_installed)
                         <=> targets[j] \notin Range(prompted))

\* a discover run over two candidates, one not installed and one prompted, with
\* a managed and declared name left out of the candidates
C23_Witness ==
    /\ discover_mode
    /\ pc = "done"
    /\ Len(targets) = 2
    /\ loaded.managed # {}
    /\ config # {}
    /\ Len(skipped_not_installed) = 1
    /\ Len(prompted) = 1
    /\ idx = 2

====
